---- MODULE Spec2Model ----
(***************************************************************************)
(* Model of Signal<Args...> and Connection<Args...> of                     *)
(* src/include/signal.h: one Signal (nextId, mtx, methods), the Connection *)
(* handles its connect family returns, and threads that call connect,      *)
(* emit, disconnect, block, unblock and disconnectAll, at top level or     *)
(* from inside a slot body that an emit is running.                        *)
(***************************************************************************)
EXTENDS Integers, Sequences, FiniteSets, Bags, TLC

\* ------------------------------------------------------------------ bounds
MaxHandles == 3          \* Connection objects ever created (one per connect)
MaxDepth   == 2          \* call frames per thread (emit -> slot -> call)
MaxCalls   == 4          \* calls started in one run
NarrowBits == 1          \* width of idType where the counter is run to its end

Threads  == {"t1", "t2"}
Handles  == 0 .. (MaxHandles - 1)

\* ------------------------------------------------------- program constants
\* idType = unsigned int counts modulo 2^32; the model checker's integers end
\* at 2^31 - 1, so the counter is modelled modulo the largest power of two
\* they hold. No run of the model comes near either value.
IdModulus == 1073741824

\* the number of values of an idType of NarrowBits bits
NarrowModulus == 2 ^ NarrowBits

NoThread == "none"
NullSig  == "nullptr"
TheSig   == "sig"
WildSig  == "wild"       \* an indeterminate pointer that is no Signal

VARIABLES
    nextId,     \* Signal::nextId
    mtx,        \* Signal::mtx: the thread that holds it, or NoThread
    methods,    \* Signal::methods: id -> MethodType
    objAlive,   \* the object observed through std::weak_ptr still has an owner
    conn,       \* the Connection objects: lifetime, sig, id
    stack,      \* per thread, the frames of the calls in progress
    issued,     \* history: the ids getNewId has returned
    fresh,      \* history: only connect and emit were ever called
    blockedBy,  \* history: handles whose last finished block/unblock is block
    crashed,    \* an invalid pointer was dereferenced or freed
    ncalls,     \* the number of calls started so far
    sigAlive,   \* the Signal has not been destroyed
    idRange     \* the number of values of idType

vars == <<nextId, mtx, methods, objAlive, conn, stack, issued, fresh,
          blockedBy, crashed, ncalls, sigAlive, idRange>>

\* ------------------------------------------------------------ data helpers
EmptyMap == << >>

NoConn == [st |-> "none", sig |-> NullSig, id |-> 0, origin |-> "none",
           disc |-> FALSE]

NoFrame == [op |-> "none", pc |-> "none", h |-> 0, id |-> 0, kind |-> "none",
            flag |-> FALSE, copy |-> EmptyMap, todo |-> {}, cur |-> 0,
            args |-> << >>, calls |-> EmptyBag, mcalls |-> {},
            quiet |-> FALSE, goneAtCall |-> {}, deadAtSnap |-> {},
            blkAtSnap |-> {}, late |-> {}, targets |-> EmptyBag]

Top(t) == stack[t][Len(stack[t])]

SetTop(st, t, f) == [st EXCEPT ![t] = [@ EXCEPT ![Len(@)] = f]]

Pop(st, t) == [st EXCEPT ![t] = SubSeq(@, 1, Len(@) - 1)]

\* a call that starts ends the quiet period of every emit in progress
Calm(st) ==
    [u \in Threads |->
        [i \in 1 .. Len(st[u]) |-> [st[u][i] EXCEPT !.quiet = FALSE]]]

Push(st, t, f) == [Calm(st) EXCEPT ![t] = Append(@, f)]

\* a thread may start a call when it is idle or inside a slot body
CanCall(t) ==
    /\ ~crashed
    /\ ncalls < MaxCalls
    /\ \/ stack[t] = << >>
       \/ /\ stack[t] # << >>
          /\ Len(stack[t]) < MaxDepth
          /\ Top(t).pc = "emit.inslot"

HandleOps == {"disconnect", "destroy", "block", "unblock"}

\* a Connection has no synchronisation of its own: its destructor does not run
\* while another call on the same object is in progress
InUse(h) ==
    \E t \in Threads : \E i \in 1 .. Len(stack[t]) :
        stack[t][i].h = h /\ stack[t][i].op \in HandleOps

Destroying(h) ==
    \E t \in Threads : \E i \in 1 .. Len(stack[t]) :
        stack[t][i].h = h /\ stack[t][i].op = "destroy"

FreeHandles == {h \in Handles : conn[h].st = "none"}

LeastFree == CHOOSE h \in FreeHandles : \A g \in FreeHandles : h <= g

\* handles whose disconnect() or destructor has returned
Gone == {h \in Handles : conn[h].disc \/ conn[h].st = "dead"}

Dead == {h \in Handles : conn[h].st = "dead"}

\* ---------------------------------------------------------- Signal's code
\* (variant: the counter is returned but not incremented)
GetNewIdNext_Stuck(n) == n

\* getNewId: return this->nextId++
GetNewIdNext(n) == (n + 1) % idRange

\* MethodType{func, isBlocked = false}
MethodType(f) == [func |-> f, isBlocked |-> FALSE]

\* methods.emplace(id, MethodType(method)): no effect when the key exists
Emplace(meths, id, rec) ==
    IF id \in DOMAIN meths THEN meths
    ELSE [i \in (DOMAIN meths) \cup {id} |->
             IF i = id THEN rec ELSE meths[i]]

\* (variants: nothing is erased; the entry after it is erased; everything
\* is erased)
Erase_Nothing(meths, id) == meths

Erase_Next(meths, id) == [i \in (DOMAIN meths) \ {id + 1} |-> meths[i]]

Erase_Clear(meths, id) == EmptyMap

\* methods.erase(id)
Erase(meths, id) == [i \in (DOMAIN meths) \ {id} |-> meths[i]]

\* (variant: the flag is set whatever `blocked` is)
SetBlockedIn_AlwaysTrue(meths, id, b) ==
    IF id \in DOMAIN meths
    THEN [meths EXCEPT ![id] = [@ EXCEPT !.isBlocked = TRUE]]
    ELSE meths

\* setBlocked: find(id), and set isBlocked when found
SetBlockedIn(meths, id, b) ==
    IF id \in DOMAIN meths
    THEN [meths EXCEPT ![id] = [@ EXCEPT !.isBlocked = b]]
    ELSE meths

\* (variant: nothing is erased)
EraseAll_Nothing(meths) == meths

\* disconnectAll: the registry afterwards
EraseAll(meths) == EmptyMap

\* The leading arguments bound at connect. The code never inspects them;
\* the connect that returns the first Connection binds none, the second one
\* value, the others two.
BoundArgs(h) ==
    IF h = 0 THEN << >> ELSE IF h = 1 THEN <<10>> ELSE <<10, 20>>

\* (variant: the bound arguments are appended)
BindFront_Back(bound, args) == args \o bound

\* std::bind_front(method, boundArgs...)(args...) and the closure's
\* ((*sp).*method)(boundArgs..., args...): the argument list of the target
BindFront(bound, args) == bound \o args

\* (variant: the lock is kept while the slots run)
MtxAfterCopy_Held(t) == t

\* emit: lock.unlock() after the copy
MtxAfterCopy(t) == NoThread

\* (variant: the loop looks the entry up in the registry as it is now)
LoopRecord_Live(copy, meths, id) ==
    IF id \in DOMAIN meths THEN meths[id] ELSE copy[id]

\* emit: the loop reads the entry of the copy
LoopRecord(copy, meths, id) == copy[id]

\* (variant: the loop stays on the entries it has visited)
LoopRest_Same(todo, id) == todo

\* emit: the range-for goes on to the entries of the copy not yet visited
LoopRest(todo, id) == todo \ {id}

\* (variant: the test is inverted)
ShouldInvoke_Inverted(rec) == rec.isBlocked

\* emit: if(!method.isBlocked)
ShouldInvoke(rec) == ~rec.isBlocked

\* (variants: the object is used without the test; the lock never succeeds)
WeakLock_Unchecked(alive) == TRUE

WeakLock_Never(alive) == FALSE

\* the closure of connect(std::shared_ptr<T>&, ...): if(auto sp = wp.lock())
WeakLock(alive) == alive

\* (variant: the closure disconnects the first id)
CapturedId_First(f) == 0

\* the closure of connect(std::shared_ptr<T>&, ...) captures the id that
\* getNewId gave its connect; the loop is at that entry of the copy
CapturedId(f) == f.cur

\* (variant: the test is inverted)
DisconnectGuard_Inverted(c) == c.sig = NullSig

\* Connection::disconnect: if(this->sig != nullptr)
DisconnectGuard(c) == c.sig # NullSig

\* this->sig->...: what dereferencing the pointer s of a Connection does. A
\* null pointer and a pointer that never was a Signal fault; a pointer to a
\* Signal that was destroyed faults or runs the call on the storage the
\* destructor left.
Deref(s) ==
    IF s = TheSig
    THEN IF sigAlive THEN {"run"} ELSE {"run", "fault"}
    ELSE {"fault"}

LockPcs == {"getNewId.lock", "addMethod.lock", "emit.lock",
            "disconnect.lock", "setBlocked.lock", "disconnectAll.lock",
            "closure.lock"}

BodyPc(pc) ==
    CASE pc = "getNewId.lock"      -> "getNewId.body"
      [] pc = "addMethod.lock"     -> "addMethod.body"
      [] pc = "emit.lock"          -> "emit.copy"
      [] pc = "disconnect.lock"    -> "disconnect.body"
      [] pc = "setBlocked.lock"    -> "setBlocked.body"
      [] pc = "disconnectAll.lock" -> "disconnectAll.body"
      [] pc = "closure.lock"       -> "closure.body"

\* (variant: the call goes on without taking the lock)
TryLock_Skip(t) == mtx

\* A call and the lock acquisition it starts with are one step when the lock
\* is free (the caller touches nothing shared in between); when the lock is
\* held the call waits at its lock statement for the step Lock.
TryLock(t) == IF mtx = NoThread THEN t ELSE mtx

FirstPc(pc) == IF mtx = NoThread THEN BodyPc(pc) ELSE pc

\* ------------------------------------------------------------------ Init
Init ==
    /\ nextId = 0
    /\ mtx = NoThread
    /\ methods = EmptyMap
    /\ objAlive = TRUE
    /\ conn = [h \in Handles |-> NoConn]
    /\ stack = [t \in Threads |-> << >>]
    /\ issued = {}
    /\ fresh = TRUE
    /\ blockedBy = {}
    /\ crashed = FALSE
    /\ ncalls = 0
    /\ sigAlive = TRUE
    /\ idRange = IdModulus

\* --------------------------------------------------------------- actions
\* std::lock_guard / std::unique_lock constructor on mtx
Lock(t) ==
    /\ ~crashed
    /\ stack[t] # << >>
    /\ Top(t).pc \in LockPcs
    /\ mtx = NoThread
    /\ mtx' = t
    /\ stack' = SetTop(stack, t, [Top(t) EXCEPT !.pc = BodyPc(@)])
    /\ UNCHANGED <<nextId, methods, objAlive, conn, issued, fresh,
                   blockedBy, crashed>>
    /\ UNCHANGED ncalls
    /\ UNCHANGED sigAlive
    /\ UNCHANGED idRange

\* connect(Method&&) and the overloads that end in it (kind "plain"),
\* connect(std::shared_ptr<T>&, Method&&[, BoundArgs&&...]) (kind "shared"),
\* each with the bound arguments BoundArgs gives the Connection it returns
CallConnect(t, k) ==
    /\ CanCall(t)
    /\ sigAlive
    /\ mtx' = TryLock(t)
    /\ ncalls' = ncalls + 1
    /\ FreeHandles # {}
    /\ LET h == LeastFree IN
         /\ conn' = [conn EXCEPT ![h] = [NoConn EXCEPT !.st = "making"]]
         /\ stack' = Push(stack, t,
                [NoFrame EXCEPT !.op = "connect", !.pc = FirstPc("getNewId.lock"),
                                !.h = h, !.kind = k])
    /\ UNCHANGED <<nextId, methods, objAlive, issued, fresh,
                   blockedBy, crashed>>
    /\ UNCHANGED sigAlive
    /\ UNCHANGED idRange

GetNewId(t) ==
    /\ stack[t] # << >>
    /\ Top(t).pc = "getNewId.body"
    /\ nextId' = GetNewIdNext(nextId)
    /\ issued' = issued \cup {nextId}
    /\ mtx' = NoThread
    /\ stack' = SetTop(stack, t,
           [Top(t) EXCEPT !.id = nextId, !.pc = "addMethod.lock"])
    /\ UNCHANGED <<methods, objAlive, conn, fresh, blockedBy, crashed>>
    /\ UNCHANGED ncalls
    /\ UNCHANGED sigAlive
    /\ UNCHANGED idRange

AddMethod(t) ==
    /\ stack[t] # << >>
    /\ Top(t).pc = "addMethod.body"
    /\ LET f == Top(t) IN
         /\ methods' = Emplace(methods, f.id,
                MethodType([kind |-> f.kind, slot |-> f.h,
                            bound |-> BoundArgs(f.h)]))
         /\ conn' = [conn EXCEPT ![f.h] =
                [st |-> "live", sig |-> TheSig, id |-> f.id,
                 origin |-> "connect", disc |-> FALSE]]
    /\ mtx' = NoThread
    /\ stack' = Pop(stack, t)
    /\ UNCHANGED <<nextId, objAlive, issued, fresh, blockedBy, crashed>>
    /\ UNCHANGED ncalls
    /\ UNCHANGED sigAlive
    /\ UNCHANGED idRange

\* emit(Args... args): the call. The code never inspects the arguments; each
\* thread emits an argument list of its own, so that the emits of two threads
\* can be told apart.
EmitArgs(t) == IF t = "t1" THEN <<1>> ELSE <<2>>

CallEmit(t) ==
    /\ CanCall(t)
    /\ sigAlive
    /\ mtx' = TryLock(t)
    /\ ncalls' = ncalls + 1
    /\ stack' = Push(stack, t,
           [NoFrame EXCEPT !.op = "emit", !.pc = FirstPc("emit.lock"),
                           !.args = EmitArgs(t),
                           !.quiet = fresh /\ \A u \in Threads :
                                                  stack[u] = << >>,
                           !.goneAtCall = Gone])
    /\ UNCHANGED <<nextId, methods, objAlive, conn, issued, fresh,
                   blockedBy, crashed>>
    /\ UNCHANGED sigAlive
    /\ UNCHANGED idRange

\* emit: auto copy = this->methods; lock.unlock();
EmitCopy(t) ==
    /\ stack[t] # << >>
    /\ Top(t).pc = "emit.copy"
    /\ mtx' = MtxAfterCopy(t)
    /\ stack' = SetTop(stack, t,
           [Top(t) EXCEPT !.copy = methods, !.todo = DOMAIN methods,
                          !.pc = "emit.loop",
                          !.deadAtSnap = Dead, !.blkAtSnap = blockedBy])
    /\ UNCHANGED <<nextId, methods, objAlive, conn, issued, fresh,
                   blockedBy, crashed>>
    /\ UNCHANGED ncalls
    /\ UNCHANGED sigAlive
    /\ UNCHANGED idRange

\* emit: one iteration of for(auto & [id, method] : copy); the order of an
\* unordered_map is unspecified, so any entry not yet visited may be next
EmitStep(t) ==
    /\ ~crashed
    /\ stack[t] # << >>
    /\ Top(t).pc = "emit.loop"
    /\ \E id \in Top(t).todo :
         LET f   == Top(t)
             rec == LoopRecord(f.copy, methods, id)
             s   == rec.func.slot
             g   == [f EXCEPT !.todo = LoopRest(@, id), !.cur = id]
             inv == [g EXCEPT
                       !.calls = @ (+) SetToBag({[slot |-> s,
                                                  args |-> f.args]}),
                       !.late = IF conn[s].st = "dead"
                                THEN @ \cup {s} ELSE @]
             tgt == [inv EXCEPT
                       !.pc = "emit.inslot",
                       !.targets = @ (+) SetToBag({[slot |-> s,
                           args |-> BindFront(rec.func.bound, f.args)]})]
         IN  stack' = SetTop(stack, t,
               IF ~ShouldInvoke(rec) THEN g
               ELSE IF rec.func.kind = "plain" THEN tgt
               ELSE IF WeakLock(objAlive)
                    THEN [tgt EXCEPT !.mcalls = @ \cup {s}]
               ELSE [inv EXCEPT !.pc = "closure.lock"])
    /\ UNCHANGED <<nextId, mtx, methods, objAlive, conn, issued, fresh,
                   blockedBy, crashed>>
    /\ UNCHANGED ncalls
    /\ UNCHANGED sigAlive
    /\ UNCHANGED idRange

\* the slot body returns to the loop
BodyReturn(t) ==
    /\ ~crashed
    /\ stack[t] # << >>
    /\ Top(t).pc = "emit.inslot"
    /\ stack' = SetTop(stack, t, [Top(t) EXCEPT !.pc = "emit.loop"])
    /\ UNCHANGED <<nextId, mtx, methods, objAlive, conn, issued, fresh,
                   blockedBy, crashed>>
    /\ UNCHANGED ncalls
    /\ UNCHANGED sigAlive
    /\ UNCHANGED idRange

\* the closure's else branch: this->disconnect(id)
ClosureDisconnect(t) ==
    /\ stack[t] # << >>
    /\ Top(t).pc = "closure.body"
    /\ methods' = Erase(methods, CapturedId(Top(t)))
    /\ mtx' = NoThread
    /\ stack' = SetTop(stack, t, [Top(t) EXCEPT !.pc = "emit.loop"])
    /\ UNCHANGED <<nextId, objAlive, conn, issued, fresh, blockedBy,
                   crashed>>
    /\ UNCHANGED ncalls
    /\ UNCHANGED sigAlive
    /\ UNCHANGED idRange

\* emit: the loop is over and emit returns
EmitReturn(t) ==
    /\ ~crashed
    /\ stack[t] # << >>
    /\ Top(t).pc = "emit.loop"
    /\ Top(t).todo = {}
    /\ stack' = Pop(stack, t)
    /\ UNCHANGED <<nextId, mtx, methods, objAlive, conn, issued, fresh,
                   blockedBy, crashed>>
    /\ UNCHANGED ncalls
    /\ UNCHANGED sigAlive
    /\ UNCHANGED idRange

\* Connection::disconnect() (dtor = FALSE) and ~Connection() (dtor = TRUE)
CallDisconnect(t, h, dtor) ==
    /\ CanCall(t)
    /\ ncalls' = ncalls + 1
    /\ conn[h].st = "live"
    /\ ~Destroying(h)
    /\ dtor => ~InUse(h)
    /\ fresh' = FALSE
    /\ IF ~DisconnectGuard(conn[h])
       THEN /\ conn' = [conn EXCEPT ![h] =
                   IF dtor THEN [@ EXCEPT !.st = "dead"]
                   ELSE [@ EXCEPT !.disc = TRUE]]
            /\ stack' = Calm(stack)
            /\ UNCHANGED <<crashed, mtx>>
       ELSE \E o \in Deref(conn[h].sig) :
              IF o = "fault"
              THEN /\ crashed' = TRUE
                   /\ UNCHANGED <<conn, stack, mtx>>
              ELSE /\ stack' = Push(stack, t,
                          [NoFrame EXCEPT
                              !.op = IF dtor THEN "destroy" ELSE "disconnect",
                              !.pc = FirstPc("disconnect.lock"),
                              !.h = h, !.id = conn[h].id])
                   /\ mtx' = TryLock(t)
                   /\ UNCHANGED <<conn, crashed>>
    /\ UNCHANGED <<nextId, methods, objAlive, issued, blockedBy>>
    /\ UNCHANGED sigAlive
    /\ UNCHANGED idRange

\* Signal::disconnect(id) called by the Connection
Disconnect(t) ==
    /\ stack[t] # << >>
    /\ Top(t).pc = "disconnect.body"
    /\ methods' = Erase(methods, Top(t).id)
    /\ mtx' = NoThread
    /\ conn' = [conn EXCEPT ![Top(t).h] =
           IF Top(t).op = "destroy" THEN [@ EXCEPT !.st = "dead"]
           ELSE [@ EXCEPT !.disc = TRUE]]
    /\ stack' = Pop(stack, t)
    /\ UNCHANGED <<nextId, objAlive, issued, fresh, blockedBy, crashed>>
    /\ UNCHANGED ncalls
    /\ UNCHANGED sigAlive
    /\ UNCHANGED idRange

\* Connection::block() (b = TRUE) and Connection::unblock() (b = FALSE):
\* this->sig->setBlocked(this->id, b), with no test of sig
CallSetBlocked(t, h, b) ==
    /\ CanCall(t)
    /\ ncalls' = ncalls + 1
    /\ conn[h].st = "live"
    /\ ~Destroying(h)
    /\ fresh' = FALSE
    /\ \E o \in Deref(conn[h].sig) :
         IF o = "fault"
         THEN /\ crashed' = TRUE
              /\ UNCHANGED <<stack, mtx>>
         ELSE /\ stack' = Push(stack, t,
                     [NoFrame EXCEPT !.op = IF b THEN "block" ELSE "unblock",
                                     !.pc = FirstPc("setBlocked.lock"),
                                     !.h = h, !.id = conn[h].id, !.flag = b])
              /\ mtx' = TryLock(t)
              /\ UNCHANGED crashed
    /\ UNCHANGED <<nextId, methods, objAlive, conn, issued, blockedBy>>
    /\ UNCHANGED sigAlive
    /\ UNCHANGED idRange

SetBlocked(t) ==
    /\ stack[t] # << >>
    /\ Top(t).pc = "setBlocked.body"
    /\ methods' = SetBlockedIn(methods, Top(t).id, Top(t).flag)
    /\ blockedBy' = IF Top(t).flag THEN blockedBy \cup {Top(t).h}
                    ELSE blockedBy \ {Top(t).h}
    /\ mtx' = NoThread
    /\ stack' = Pop(stack, t)
    /\ UNCHANGED <<nextId, objAlive, conn, issued, fresh, crashed>>
    /\ UNCHANGED ncalls
    /\ UNCHANGED sigAlive
    /\ UNCHANGED idRange

CallDisconnectAll(t) ==
    /\ CanCall(t)
    /\ sigAlive
    /\ mtx' = TryLock(t)
    /\ ncalls' = ncalls + 1
    /\ fresh' = FALSE
    /\ stack' = Push(stack, t,
           [NoFrame EXCEPT !.op = "disconnectAll",
                           !.pc = FirstPc("disconnectAll.lock")])
    /\ UNCHANGED <<nextId, methods, objAlive, conn, issued,
                   blockedBy, crashed>>
    /\ UNCHANGED sigAlive
    /\ UNCHANGED idRange

DisconnectAll(t) ==
    /\ stack[t] # << >>
    /\ Top(t).pc = "disconnectAll.body"
    /\ methods' = EraseAll(methods)
    /\ mtx' = NoThread
    /\ stack' = Pop(stack, t)
    /\ UNCHANGED <<nextId, objAlive, conn, issued, fresh, blockedBy,
                   crashed>>
    /\ UNCHANGED ncalls
    /\ UNCHANGED sigAlive
    /\ UNCHANGED idRange

\* the last std::shared_ptr owner of the observed object goes away; while a
\* closure holds the object through sp the object stays alive
InSharedBody ==
    \E t \in Threads : \E i \in 1 .. Len(stack[t]) :
        /\ stack[t][i].pc = "emit.inslot"
        /\ stack[t][i].copy[stack[t][i].cur].func.kind = "shared"

Observed ==
    \E id \in DOMAIN methods : methods[id].func.kind = "shared"

DropOwner ==
    /\ ~crashed
    /\ objAlive
    /\ Observed
    /\ ~InSharedBody
    /\ objAlive' = FALSE
    /\ fresh' = FALSE
    /\ stack' = Calm(stack)
    /\ UNCHANGED <<nextId, mtx, methods, conn, issued, blockedBy, crashed>>
    /\ UNCHANGED ncalls
    /\ UNCHANGED sigAlive
    /\ UNCHANGED idRange

Next ==
    \/ \E t \in Threads : Lock(t)
    \/ \E t \in Threads : \E k \in {"plain", "shared"} : CallConnect(t, k)
    \/ \E t \in Threads : GetNewId(t)
    \/ \E t \in Threads : AddMethod(t)
    \/ \E t \in Threads : CallEmit(t)
    \/ \E t \in Threads : EmitCopy(t)
    \/ \E t \in Threads : EmitStep(t)
    \/ \E t \in Threads : BodyReturn(t)
    \/ \E t \in Threads : ClosureDisconnect(t)
    \/ \E t \in Threads : EmitReturn(t)
    \/ \E t \in Threads : \E h \in Handles : \E d \in BOOLEAN :
           CallDisconnect(t, h, d)
    \/ \E t \in Threads : Disconnect(t)
    \/ \E t \in Threads : \E h \in Handles : \E b \in BOOLEAN :
           CallSetBlocked(t, h, b)
    \/ \E t \in Threads : SetBlocked(t)
    \/ \E t \in Threads : CallDisconnectAll(t)
    \/ \E t \in Threads : DisconnectAll(t)
    \/ DropOwner

Spec == Init /\ [][Next]_vars

\* ------------------------------------------------- what the claims speak of
\* the positions of the frames of the calls in progress
Frames == {<<t, i>> : t \in Threads, i \in 1 .. MaxDepth}

\* the frames of the emits in progress
EmitFrames ==
    {stack[p[1]][p[2]] :
        p \in {q \in Frames : /\ q[2] <= Len(stack[q[1]])
                              /\ stack[q[1]][q[2]].op = "emit"}}

\* the emit has copied the registry
Snapshotted(f) ==
    f.pc \in {"emit.loop", "emit.inslot", "closure.lock", "closure.body"}

\* the loop of the emit is over
Finished(f) == f.pc = "emit.loop" /\ f.todo = {}

\* the slots an emit has called
Called(f) == {r.slot : r \in BagToSet(f.calls)}

LiveHandles == {h \in Handles : conn[h].st = "live"}

\* one step of the call thread t has in progress
Advance(t) ==
    \/ Lock(t)
    \/ GetNewId(t)
    \/ AddMethod(t)
    \/ EmitCopy(t)
    \/ EmitStep(t)
    \/ BodyReturn(t)
    \/ ClosureDisconnect(t)
    \/ EmitReturn(t)
    \/ Disconnect(t)
    \/ SetBlocked(t)
    \/ DisconnectAll(t)

CriticalPcs == {"getNewId.body", "addMethod.body", "emit.copy",
                "disconnect.body", "setBlocked.body", "disconnectAll.body",
                "closure.body"}

\* C1: on a Signal on which only connects were performed (N Connections
\* alive, nothing blocked, nothing concurrent), an emit that has finished
\* has invoked each of the N slots exactly once with the arguments of the
\* emit, and nothing else.
C1_EmitInvokesEachSlotOnce ==
    \A t \in Threads : \A i \in 1 .. Len(stack[t]) :
        LET f == stack[t][i] IN
        (f.op = "emit" /\ Finished(f) /\ f.quiet) =>
            f.calls = SetToBag({[slot |-> h, args |-> EmitArgs(t)] :
                                   h \in LiveHandles})

C1_Witness ==
    \E f \in EmitFrames :
        /\ Finished(f) /\ f.quiet
        /\ Cardinality(LiveHandles) >= 2
        /\ Cardinality(Called(f)) >= 2

\* C2: a slot whose Connection's disconnect() or destructor had returned
\* when an emit was called is not invoked by that emit.
C2_DisconnectedNotInvoked ==
    \A f \in EmitFrames : Called(f) \cap f.goneAtCall = {}

C2_Witness ==
    \E f \in EmitFrames :
        /\ Finished(f)
        /\ f.goneAtCall # {}
        /\ Called(f) # {}

\* C3, as claimed: no slot is invoked once the destructor of its Connection
\* has returned, emits already in progress included.
C3_NeverInvokedAfterDestructor ==
    \A f \in EmitFrames : f.late = {}

\* C3, amended: a slot whose Connection's destructor had returned when an
\* emit copied the registry is not invoked by that emit.
C3_NotInvokedBySnapshotsAfterDestructor ==
    \A f \in EmitFrames : Snapshotted(f) => Called(f) \cap f.deadAtSnap = {}

C3_Witness ==
    \E f \in EmitFrames :
        /\ Finished(f)
        /\ f.deadAtSnap # {}
        /\ Called(f) # {}

\* C4: what an emit invokes is fixed by its copy of the registry: at every
\* point of the loop the slots invoked so far are exactly the entries of the
\* copy already visited that are not blocked in the copy, each once, and at
\* the end every such entry, whatever the registry has become since.
C4_SnapshotIsolation ==
    \A f \in EmitFrames :
        Snapshotted(f) =>
            /\ f.todo \subseteq DOMAIN f.copy
            /\ f.calls = SetToBag(
                   {[slot |-> f.copy[i].func.slot, args |-> f.args] :
                       i \in {j \in (DOMAIN f.copy) \ f.todo :
                                 ~f.copy[j].isBlocked}})

C4_Witness ==
    \E f \in EmitFrames :
        /\ Finished(f)
        /\ f.calls # EmptyBag
        /\ methods # f.copy
        /\ \E i \in (DOMAIN f.copy) \cap (DOMAIN methods) :
               methods[i].isBlocked /\ ~f.copy[i].isBlocked

NoDeadlockState ==
    /\ \A t \in Threads :
           (stack[t] # << >> /\ Top(t).pc = "emit.inslot") => mtx # t
    /\ \A t \in Threads :
           (stack[t] # << >> /\ Top(t).pc \in LockPcs) => mtx # t
    /\ mtx # NoThread =>
           (stack[mtx] # << >> /\ Top(mtx).pc \in CriticalPcs)
    /\ \A t \in Threads :
           stack[t] # << >> =>
               \/ ENABLED Advance(t)
               \/ /\ Top(t).pc \in LockPcs
                  /\ mtx \in Threads \ {t}
                  /\ ENABLED Advance(mtx)

\* C5: the lock is not held by a thread that is executing a slot body (it
\* holds it only inside the calls the body makes), no thread waits
\* for the lock it holds, the holder is inside a critical section, and every
\* call in progress can take its next step or waits for a holder that can.
C5_NoDeadlock == []NoDeadlockState

C5_Witness ==
    \E t \in Threads :
        /\ Len(stack[t]) = 2
        /\ stack[t][1].pc = "emit.inslot"
        /\ Top(t).pc \in CriticalPcs
        /\ mtx = t
        /\ \E u \in Threads \ {t} :
               stack[u] # << >> /\ Top(u).pc \in LockPcs

BlockUnblockState ==
    /\ \A f \in EmitFrames :
           Snapshotted(f) =>
               /\ Called(f) \cap f.blkAtSnap = {}
               /\ Finished(f) =>
                      \A i \in DOMAIN f.copy :
                          f.copy[i].func.slot \notin f.blkAtSnap =>
                              f.copy[i].func.slot \in Called(f)
    /\ \A i \in DOMAIN methods :
           methods[i].isBlocked <=> (methods[i].func.slot \in blockedBy)

SharedIn(f) ==
    {i \in DOMAIN f.copy :
        f.copy[i].func.kind = "shared" /\ ~f.copy[i].isBlocked}

OwnershipAwareState ==
    \A f \in EmitFrames :
        /\ (f.pc = "emit.inslot" /\ f.copy[f.cur].func.kind = "shared")
               => objAlive
        /\ (Finished(f) /\ objAlive) =>
               \A i \in SharedIn(f) : f.copy[i].func.slot \in f.mcalls
        /\ Finished(f) =>
               \A i \in SharedIn(f) :
                   f.copy[i].func.slot \notin f.mcalls =>
                       i \notin DOMAIN methods
        /\ ~crashed

\* C7: the member function of an ownership-aware slot runs only while the
\* object is alive; an emit that ends while the object is alive has invoked
\* it for every such slot of its copy that is not blocked; and when an emit
\* reached such a slot without invoking the member function, the slot's
\* registry entry is gone when the emit ends.
C7_OwnershipAware == []OwnershipAwareState

C7_Witness ==
    \E f \in EmitFrames :
        /\ Finished(f)
        /\ \E i \in SharedIn(f) :
               /\ f.copy[i].func.slot \in Called(f)
               /\ f.copy[i].func.slot \notin f.mcalls
               /\ i \notin DOMAIN methods

\* C8: the step in which a Connection's disconnect() or destructor erases
\* removes from the registry the entry with the Connection's id and nothing
\* else: the other entries and nextId are as before.
C8_DisconnectRemovesOnlyItsEntry ==
    [][\A t \in Threads :
          (/\ stack[t] # << >>
           /\ Top(t).pc = "disconnect.body"
           /\ stack'[t] # stack[t]) =>
              /\ nextId' = nextId
              /\ DOMAIN methods' = (DOMAIN methods) \ {conn[Top(t).h].id}
              /\ \A i \in DOMAIN methods' : methods'[i] = methods[i]]_vars

C8_Witness ==
    \E h \in Gone : \E g \in LiveHandles \ Gone :
        /\ conn[h].id \notin DOMAIN methods
        /\ conn[g].id \in DOMAIN methods
        /\ methods[conn[g].id].func.slot = g

\* the connect in progress that will return handle h has drawn its id
Making(t, h) ==
    \E i \in 1 .. Len(stack[t]) :
        /\ stack[t][i].op = "connect"
        /\ stack[t][i].h = h
        /\ stack[t][i].pc \in {"addMethod.lock", "addMethod.body"}

HasId ==
    {h \in Handles :
        \/ conn[h].st \in {"live", "dead"} /\ conn[h].origin = "connect"
        \/ conn[h].st = "making" /\ \E t \in Threads : Making(t, h)}

IdOf(h) ==
    IF conn[h].st \in {"live", "dead"} THEN conn[h].id
    ELSE LET t == CHOOSE u \in Threads : Making(u, h)
             i == CHOOSE j \in 1 .. Len(stack[t]) :
                      stack[t][j].op = "connect" /\ stack[t][j].h = h
         IN  stack[t][i].id

IdsUniqueState ==
    LET has == HasId
        ids == [h \in has |-> IdOf(h)]
    IN  /\ \A i \in issued : i < nextId
        /\ \A i \in 0 .. (nextId - 1) : i \in issued
        /\ \A h, g \in has : h # g => ids[h] # ids[g]
        /\ \A h \in has : ids[h] \in issued
        /\ \A i \in DOMAIN methods :
               /\ i \in issued
               /\ methods[i].func.slot \in has
               /\ ids[methods[i].func.slot] = i

\* C10: the ids handed out so far are exactly the numbers below nextId, every
\* connect that has been given an id has one of its own, and the registry
\* holds only ids that were handed out.
C10_IdsUnique == []IdsUniqueState

C10_Witness ==
    /\ nextId >= 3
    /\ Cardinality(DOMAIN methods) < nextId
    /\ \E t \in Threads :
           stack[t] # << >> /\ Top(t).pc = "addMethod.body"

\* the step is one of thread t's call (not the start of another thread's
\* call, which only ends the quiet period of t's emit)
Moved(t) == stack'[t] # stack[t] /\ stack'[t] # Calm(stack)[t]

TargetCalled(f) ==
    {f.copy[i].func.slot :
        i \in {j \in (DOMAIN f.copy) \ f.todo :
                  /\ ~f.copy[j].isBlocked
                  /\ f.copy[j].func.kind = "plain"}} \cup f.mcalls

\* C16: the target of every slot an emit calls is called once, with the
\* arguments bound at connect followed by the arguments of the emit.
C16_BoundArgsFirst ==
    \A f \in EmitFrames :
        Snapshotted(f) =>
            f.targets = SetToBag({[slot |-> s,
                                   args |-> BoundArgs(s) \o f.args] :
                                      s \in TargetCalled(f)})

C16_Witness ==
    \E f \in EmitFrames :
        /\ Finished(f)
        /\ \E r \in BagToSet(f.targets) : Len(r.args) = 3 /\ r.args[3] = f.args[1]
        /\ \E r \in BagToSet(f.targets) : Len(r.args) = 2

\* C18: a Connection whose disconnect() has returned no longer references
\* the Signal.
C18_EmptyAfterDisconnect ==
    \A h \in Handles :
        (conn[h].st = "live" /\ conn[h].disc) => conn[h].sig = NullSig

C20_AccessUnderLock ==
    /\ [][\A t \in Threads :
             (/\ stack[t] # << >>
              /\ Top(t).pc \in CriticalPcs
              /\ Moved(t)) => mtx = t]_vars
    /\ [][(methods' # methods \/ nextId' # nextId) =>
             /\ mtx \in Threads
             /\ Top(mtx).pc \in CriticalPcs
             /\ Moved(mtx)
             /\ mtx' = NoThread]_vars
    /\ [](Cardinality({t \in Threads :
                         stack[t] # << >> /\ Top(t).pc \in CriticalPcs}) <= 1)

C20_Witness ==
    \E t \in Threads : \E u \in Threads \ {t} :
        /\ stack[t] # << >> /\ Top(t).pc = "addMethod.body" /\ mtx = t
        /\ stack[u] # << >> /\ Top(u).pc \in LockPcs
        /\ nextId >= 2

\* C21: a step of an emit (its copy, its loop, its return) leaves the
\* registry and nextId as they are, except the self-disconnect of an
\* ownership-aware slot, which an emit reaches only when the observed object
\* is dead; and every step that changes the registry or nextId is a step of
\* connect, of a Connection's disconnect, destructor, block or unblock, of
\* disconnectAll, or that self-disconnect.
C21_EmitChangesNothing ==
    /\ [][\A t \in Threads :
             (/\ stack[t] # << >>
              /\ Top(t).op = "emit"
              /\ Top(t).pc # "closure.body"
              /\ Moved(t)) => (methods' = methods /\ nextId' = nextId)]_vars
    /\ [](\A f \in EmitFrames :
             f.pc \in {"closure.lock", "closure.body"} => ~objAlive)
    /\ [][(methods' # methods \/ nextId' # nextId) =>
             \E t \in Threads :
                 /\ stack[t] # << >>
                 /\ Moved(t)
                 /\ \/ Top(t).op \in {"connect", "disconnect", "destroy",
                                       "block", "unblock", "disconnectAll"}
                    \/ Top(t).pc = "closure.body"]_vars

C21_Witness ==
    \E f \in EmitFrames :
        /\ Finished(f)
        /\ objAlive
        /\ f.mcalls # {}
        /\ Cardinality(Called(f)) >= 2
        /\ methods = f.copy
        /\ nextId = Cardinality(DOMAIN methods)

\* C24: the self-disconnect of an ownership-aware slot leaves nextId and
\* every registry entry of another registration as they are, whether or not
\* the slot's own entry is still in the registry.
C24_SelfDisconnectOnlyOwnEntry ==
    [][\A t \in Threads :
          (/\ stack[t] # << >>
           /\ Top(t).pc = "closure.body"
           /\ Moved(t)) =>
              /\ nextId' = nextId
              /\ \A i \in DOMAIN methods :
                     methods[i].func.slot # Top(t).copy[Top(t).cur].func.slot
                         => (i \in DOMAIN methods' /\ methods'[i] = methods[i])
              /\ \A i \in DOMAIN methods' :
                     i \in DOMAIN methods /\ methods'[i] = methods[i]]_vars

C24_Witness ==
    \E t \in Threads :
        /\ stack[t] # << >>
        /\ Top(t).pc = "closure.body"
        /\ Top(t).cur \notin DOMAIN methods
        /\ \E i \in DOMAIN methods : i \notin DOMAIN Top(t).copy

\* C25: an emit invokes at most as many slots as its copy of the registry
\* has entries, however the registry has grown since: the invocations made
\* and the entries still to visit never exceed the entries of the copy,
\* every iteration of the loop leaves one entry less to visit and the copy
\* as it was, and the loop returns when none is left.
C25_EmitBoundedBySnapshot ==
    /\ [](\A f \in EmitFrames :
             Snapshotted(f) =>
                 /\ f.todo \subseteq DOMAIN f.copy
                 /\ BagCardinality(f.calls) + Cardinality(f.todo)
                        <= Cardinality(DOMAIN f.copy))
    /\ [][\A t \in Threads :
             (/\ stack[t] # << >>
              /\ Top(t).op = "emit"
              /\ Top(t).pc = "emit.loop"
              /\ Moved(t)) =>
                 \/ /\ Top(t).todo = {}
                    /\ Len(stack'[t]) = Len(stack[t]) - 1
                 \/ /\ Len(stack'[t]) = Len(stack[t])
                    /\ stack'[t][Len(stack[t])].copy = Top(t).copy
                    /\ Cardinality(stack'[t][Len(stack[t])].todo)
                           = Cardinality(Top(t).todo) - 1]_vars
    /\ [](\A t \in Threads :
             (stack[t] # << >> /\ Top(t).op = "emit"
                 /\ Top(t).pc \in {"emit.loop", "emit.inslot", "emit.copy"})
                 => ENABLED Advance(t))

C25_Witness ==
    \E f \in EmitFrames :
        /\ Finished(f)
        /\ BagCardinality(f.calls) = Cardinality(DOMAIN f.copy)
        /\ f.calls # EmptyBag
        /\ Cardinality(DOMAIN methods) >= Cardinality(DOMAIN f.copy) + 2

\* Under fair scheduling of the threads (a thread that can take the next
\* step of its call eventually does), every emit a thread has called returns.
Fairness == \A t \in Threads : WF_vars(Advance(t))

SpecFair == Spec /\ Fairness

EmitTerminates ==
    \A t \in Threads :
        (stack[t] # << >> /\ stack[t][1].op = "emit") ~> (stack[t] = << >>)

\* ------------------------------------------- default-constructed Connections
\* Connection() = default with members that have no initializer: after
\* `Connection<> c;` sig and id are indeterminate. sig may be null, may be
\* the address of the Signal (what the storage held before), or any other
\* address; id may be any number.
DefaultConstruct(t) ==
    /\ CanCall(t)
    /\ ncalls' = ncalls + 1
    /\ FreeHandles # {}
    /\ \E s \in {NullSig, TheSig, WildSig} : \E i \in Handles :
           conn' = [conn EXCEPT ![LeastFree] =
               [st |-> "live", sig |-> s, id |-> i, origin |-> "default",
                disc |-> FALSE]]
    /\ fresh' = FALSE
    /\ stack' = Calm(stack)
    /\ UNCHANGED <<nextId, mtx, methods, objAlive, issued, blockedBy,
                   crashed>>
    /\ UNCHANGED sigAlive
    /\ UNCHANGED idRange

NextDefault ==
    \/ Next
    \/ \E t \in Threads : DefaultConstruct(t)

SpecDefault == Init /\ [][NextDefault]_vars

\* C9: disconnect() (or the destructor) of a Connection that was already
\* disconnected, or that is empty (default-constructed, or its sig is null),
\* leaves the registry and nextId as they were; and no disconnect() ends in
\* an error.
Inert(h) ==
    \/ conn[h].disc
    \/ conn[h].origin = "default"
    \/ conn[h].sig = NullSig

C9_DisconnectIdempotent ==
    [][/\ ~crashed'
       /\ \A t \in Threads :
             (/\ stack[t] # << >>
              /\ Top(t).pc = "disconnect.body"
              /\ stack'[t] # stack[t]
              /\ Inert(Top(t).h)) =>
                 (methods' = methods /\ nextId' = nextId)]_vars

\* C17: a default-constructed Connection references no Signal.
C17_DefaultIsEmpty ==
    \A h \in Handles :
        (conn[h].st = "live" /\ conn[h].origin = "default") =>
            conn[h].sig = NullSig

\* ------------------------------------------------------ moved Connections
\* no call is in progress
Quiescent == \A t \in Threads : stack[t] = << >>

\* Connection(Connection && other): id(other.id), sig(other.sig), and
\* other.sig = nullptr. The new object takes the least free handle.
MoveConstruct(t, src) ==
    /\ CanCall(t)
    /\ ncalls' = ncalls + 1
    /\ FreeHandles # {}
    /\ conn[src].st = "live"
    /\ ~InUse(src)
    /\ conn' = [conn EXCEPT
           ![LeastFree] = [st |-> "live", sig |-> conn[src].sig,
                           id |-> conn[src].id, origin |-> "move",
                           disc |-> FALSE],
           ![src] = [@ EXCEPT !.sig = NullSig]]
    /\ fresh' = FALSE
    /\ stack' = Calm(stack)
    /\ UNCHANGED <<nextId, mtx, methods, objAlive, issued, blockedBy,
                   crashed, sigAlive>>
    /\ UNCHANGED idRange

\* operator=: delete this->sig. Deleting a null pointer does nothing.
\* Deleting the Signal runs its destructor; when the Signal was not created
\* by new (the Signals of src/tests and src/main.cpp are local variables),
\* or was deleted before, the deallocation is invalid.
DeleteSig(s) ==
    IF s = NullSig THEN {"nothing"}
    ELSE IF s = TheSig /\ sigAlive THEN {"destroyed", "fault"}
    ELSE {"fault"}

\* Connection & operator=(Connection && other), this != &other. The Signal is
\* deleted only between calls: a Signal destroyed under a call in progress
\* is left out.
MoveAssign(t, dst, src) ==
    /\ CanCall(t)
    /\ ncalls' = ncalls + 1
    /\ dst # src
    /\ conn[dst].st = "live" /\ conn[src].st = "live"
    /\ ~InUse(dst) /\ ~InUse(src)
    /\ conn[dst].sig # NullSig => Quiescent
    /\ \E o \in DeleteSig(conn[dst].sig) :
         /\ sigAlive' = IF conn[dst].sig = TheSig THEN FALSE ELSE sigAlive
         /\ methods' = IF conn[dst].sig = TheSig /\ sigAlive THEN EmptyMap
                       ELSE methods
         /\ crashed' = IF o = "fault" THEN TRUE ELSE crashed
    /\ conn' = [conn EXCEPT
           ![dst] = [@ EXCEPT !.id = conn[src].id, !.sig = conn[src].sig],
           ![src] = [@ EXCEPT !.sig = NullSig]]
    /\ fresh' = FALSE
    /\ stack' = Calm(stack)
    /\ UNCHANGED <<nextId, mtx, objAlive, issued, blockedBy>>
    /\ UNCHANGED idRange

NextMove ==
    \/ Next
    \/ \E t \in Threads : \E src \in Handles : MoveConstruct(t, src)
    \/ \E t \in Threads : \E dst \in Handles : \E src \in Handles :
           MoveAssign(t, dst, src)

SpecMove == Init /\ [][NextMove]_vars

\* a Connection that references the Signal
Bound(h) == conn[h].st = "live" /\ conn[h].sig = TheSig

\* C11: the step that moves a bound Connection (it empties the source)
\* leaves some other Connection with the source's sig and id, and changes
\* nothing of the Signal: its registry is as before, it is not destroyed and
\* nothing faults; so the registration stays until the destination's
\* disconnect() or destructor.
C11_MoveTransfers ==
    [][\A s \in Handles :
          (Bound(s) /\ conn'[s].sig = NullSig) =>
              /\ \E d \in Handles \ {s} :
                     /\ conn'[d].st = "live"
                     /\ conn'[d].sig = conn[s].sig
                     /\ conn'[d].id = conn[s].id
              /\ methods' = methods
              /\ sigAlive' = sigAlive
              /\ crashed' = crashed]_vars

\* C12: every registry entry is referenced by exactly one Connection, and
\* the Signal a Connection references exists.
C12_OneHandlePerEntry ==
    /\ \A h \in Handles : Bound(h) => sigAlive
    /\ \A i \in DOMAIN methods :
           Cardinality({h \in Handles : Bound(h) /\ conn[h].id = i}) = 1

\* C14: block() or unblock() on an empty Connection (its sig is null)
\* dereferences nothing: the call does not fault.
C14_BlockOnEmptyIsAnError ==
    [][\A t \in Threads : \A h \in Handles : \A b \in BOOLEAN :
          (/\ conn[h].st = "live"
           /\ conn[h].sig = NullSig
           /\ CallSetBlocked(t, h, b)) => crashed' = crashed]_vars

\* C22: move assignment onto a Connection that references the Signal leaves
\* the Signal alive and faults nothing, and every registry entry other than
\* the destination's own is kept as it is.
C22_MoveAssignKeepsSignal ==
    [][\A t \in Threads : \A d \in Handles : \A s \in Handles :
          (Bound(d) /\ sigAlive /\ MoveAssign(t, d, s)) =>
              /\ sigAlive'
              /\ crashed' = crashed
              /\ \A i \in (DOMAIN methods) \ {conn[d].id} :
                     i \in DOMAIN methods' /\ methods'[i] = methods[i]]_vars

\* ------------------------------------------------ the end of the Signal
\* ~Signal() (implicit): the members are destroyed; the Connections are not
\* told. The Signal is destroyed between calls.
DestroySignal ==
    /\ ~crashed
    /\ sigAlive
    /\ Quiescent
    /\ sigAlive' = FALSE
    /\ methods' = EmptyMap
    /\ fresh' = FALSE
    /\ UNCHANGED <<nextId, mtx, objAlive, conn, stack, issued, blockedBy,
                   crashed, ncalls>>
    /\ UNCHANGED idRange

NextLife ==
    \/ Next
    \/ DestroySignal

SpecLife == Init /\ [][NextLife]_vars

\* C13: once the Signal is destroyed no call of a Connection enters it and
\* none faults.
C13_InertAfterSignalDestroyed ==
    ~sigAlive => (~crashed /\ Quiescent)

\* ------------------------------------------- the id counter run to its end
\* The same Signal with an idType of NarrowBits bits, so that nextId++ wraps
\* within a few connects as the 32-bit counter does after 2^32 of them.
InitNarrow ==
    /\ nextId = 0
    /\ mtx = NoThread
    /\ methods = EmptyMap
    /\ objAlive = TRUE
    /\ conn = [h \in Handles |-> NoConn]
    /\ stack = [t \in Threads |-> << >>]
    /\ issued = {}
    /\ fresh = TRUE
    /\ blockedBy = {}
    /\ crashed = FALSE
    /\ ncalls = 0
    /\ sigAlive = TRUE
    /\ idRange = NarrowModulus

SpecWrap == InitNarrow /\ [][Next]_vars

\* C23: the step in which connect stores its slot uses an id that is not in
\* the registry, leaves the new slot in the registry under that id, and no
\* other Connection has that id.
C23_FreshIdAfterWrap ==
    [][\A t \in Threads :
          (/\ stack[t] # << >>
           /\ Top(t).pc = "addMethod.body"
           /\ Moved(t)) =>
              /\ Top(t).id \notin DOMAIN methods
              /\ Top(t).id \in DOMAIN methods'
              /\ methods'[Top(t).id].func.slot = Top(t).h
              /\ \A g \in Handles \ {Top(t).h} :
                     conn'[g].st = "live" => conn'[g].id # Top(t).id]_vars

====
